---------------------------- MODULE Spec2Model ----------------------------
(***************************************************************************)
(* A model of two components of the resolver's caching core:               *)
(*                                                                         *)
(*   ForkIndexes         crates/uv-resolver/src/fork_indexes.rs            *)
(*   RegistryWheelIndex  crates/uv-distribution/src/index/                 *)
(*                       registry_wheel_index.rs                           *)
(*                                                                         *)
(* Strings whose ordering matters (the string forms of index URLs) are     *)
(* sequences of byte values, compared as Rust compares `String`s.          *)
(***************************************************************************)
EXTENDS Integers, Sequences, FiniteSets, TLC

VARIABLES
    forks,            \* the ForkIndexes of every live fork, in creation order
    index_locations,  \* RegistryWheelIndex.index_locations (fixed at `new`)
    cache,            \* the on-disk cache the RegistryWheelIndex reads
    index,            \* RegistryWheelIndex.index: package -> (Index -> versions)
    scans,            \* how often RegistryWheelIndex::index ran, per package
    scan,             \* the RegistryWheelIndex::index call in progress, if any
    last,             \* the call made by the last step
    result            \* what that call returned

vars == <<forks, index_locations, cache, index, scans, scan, last, result>>

---------------------------------------------------------------------------
(* Bounds *)

\* the number of trackers (the root one and its clones) alive at once
MaxForks == 2

---------------------------------------------------------------------------
(* Values shared by both components *)

PackageNames == {"foo", "bar"}

\* The IndexUrl values of the model.
IndexUrls == {"pypi", "extra", "links"}

\* The enum variant of an IndexUrl.
IndexUrlVariant(url) ==
    CASE url = "pypi"  -> "Pypi"
      [] url = "extra" -> "Url"
      [] url = "links" -> "Path"

\* IndexUrl::to_string: the URL as text, here as its bytes.
\*   pypi  = https://pypi.org/simple
\*   extra = https://pypi.org/simple/extra
\*   links = file:///links
IndexUrl_to_string(url) ==
    CASE url = "pypi"  ->
           <<104, 116, 116, 112, 115, 58, 47, 47, 112, 121, 112, 105, 46,
             111, 114, 103, 47, 115, 105, 109, 112, 108, 101>>
      [] url = "extra" ->
           <<104, 116, 116, 112, 115, 58, 47, 47, 112, 121, 112, 105, 46,
             111, 114, 103, 47, 115, 105, 109, 112, 108, 101, 47, 101, 120,
             116, 114, 97>>
      [] url = "links" ->
           <<102, 105, 108, 101, 58, 47, 47, 47, 108, 105, 110, 107, 115>>

\* `a < b` for two Strings: bytewise lexicographic, a proper prefix first.
RECURSIVE StringLess(_, _)
StringLess(a, b) ==
    IF b = <<>> THEN FALSE
    ELSE IF a = <<>> THEN TRUE
    ELSE IF Head(a) /= Head(b) THEN Head(a) < Head(b)
    ELSE StringLess(Tail(a), Tail(b))

\* Insert string s into the sorted sequence of strings `sorted`, after its equals.
RECURSIVE InsertSorted(_, _)
InsertSorted(s, sorted) ==
    IF sorted = <<>> THEN <<s>>
    ELSE IF StringLess(s, Head(sorted)) THEN <<s>> \o sorted
    ELSE <<Head(sorted)>> \o InsertSorted(s, Tail(sorted))

RECURSIVE SortStrings(_)
SortStrings(v) ==
    IF v = <<>> THEN <<>>
    ELSE InsertSorted(v[Len(v)], SortStrings(SubSeq(v, 1, Len(v) - 1)))

---------------------------------------------------------------------------
(* ForkIndexes *)

\* ResolverMarkers: the variant and what it carries.
ResolverMarkers ==
    { [kind |-> "Universal", markers |-> "sys_platform == 'linux'"],
      [kind |-> "SpecificEnvironment", markers |-> "sys_platform == 'win32'"],
      [kind |-> "Fork", markers |-> "sys_platform == 'linux'"],
      [kind |-> "Fork", markers |-> "sys_platform == 'win32'"] }

\* ForkIndexes::default(): the empty map.
ForkIndexes_default == [p \in {} |-> "pypi"]

Ok == [kind |-> "Ok"]

\* The pair of conflicting indexes as an unsorted vector.
UnsortedConflicts(previous, new) ==
    <<IndexUrl_to_string(previous), IndexUrl_to_string(new)>>

\* `vec![previous.to_string(), index.to_string()]`, then `conflicts.sort()`.
Conflicts(previous, new) ==
    SortStrings(<<IndexUrl_to_string(previous), IndexUrl_to_string(new)>>)

\* A conflict error that takes every context with markers for a fork.
ConflictErrorByMarkers(package_name, conflicts, fork_markers) ==
    IF fork_markers.kind = "Universal"
    THEN [kind |-> "ConflictingIndexesUniversal",
          package_name |-> package_name,
          indexes |-> conflicts]
    ELSE [kind |-> "ConflictingIndexesFork",
          package_name |-> package_name,
          indexes |-> conflicts,
          fork_markers |-> fork_markers.markers]

\* The error of a conflicting insert, selected by the variant of fork_markers.
ConflictError(package_name, conflicts, fork_markers) ==
    IF fork_markers.kind \in {"Universal", "SpecificEnvironment"}
    THEN [kind |-> "ConflictingIndexesUniversal",
          package_name |-> package_name,
          indexes |-> conflicts]
    ELSE [kind |-> "ConflictingIndexesFork",
          package_name |-> package_name,
          indexes |-> conflicts,
          fork_markers |-> fork_markers.markers]

\* A vacant entry that is looked up and left vacant.
VacantUnused(map, package_name, url) == map

\* The map after `vacant.insert(index.clone())`.
VacantInsert(map, package_name, url) ==
    [p \in DOMAIN map \cup {package_name} |->
        IF p = package_name THEN url ELSE map[p]]

\* The map after an insert that overwrites whatever the entry holds.
OverwritingInsertMap(map, package_name, url) ==
    [p \in DOMAIN map \cup {package_name} |->
        IF p = package_name THEN url ELSE map[p]]

\* The map after an insert that, on an occupied entry, forgets the pins of
\* the other packages.
InsertMap_forgetful(map, package_name, url) ==
    IF package_name \in DOMAIN map
    THEN [p \in {package_name} |-> map[package_name]]
    ELSE VacantInsert(map, package_name, url)

\* The map after ForkIndexes::insert.
InsertMap(map, package_name, url) ==
    IF package_name \in DOMAIN map
    THEN map
    ELSE VacantInsert(map, package_name, url)

\* An insert that rejects every occupied entry.
InsertResultOccupied(map, package_name, url, fork_markers) ==
    IF package_name \in DOMAIN map
    THEN ConflictError(package_name, Conflicts(map[package_name], url), fork_markers)
    ELSE Ok

\* What ForkIndexes::insert returns.
InsertResult(map, package_name, url, fork_markers) ==
    IF package_name \in DOMAIN map /\ map[package_name] /= url
    THEN ConflictError(package_name, Conflicts(map[package_name], url), fork_markers)
    ELSE Ok

\* ForkIndexes::get as a value: Some(index) or None.
GetResult(map, package_name) ==
    IF package_name \in DOMAIN map
    THEN [kind |-> "Some", value |-> map[package_name]]
    ELSE [kind |-> "None"]

NoMarkers == [kind |-> "-", markers |-> "-"]

\* A call: what was called with which arguments, and whether the map entry it
\* looked up was Occupied or Vacant.
Call(op, fork, package_name, url, fork_markers, entry) ==
    [op |-> op, fork |-> fork, package_name |-> package_name,
     url |-> url, fork_markers |-> fork_markers, entry |-> entry]

\* HashMap::entry(key) as the arm of the match it selects
Entry(map, key) == IF key \in DOMAIN map THEN "Occupied" ELSE "Vacant"

\* an insert on trackers that share one map
ForkIndexes_insert_shared(f, package_name, url, fork_markers) ==
    /\ forks' = [g \in DOMAIN forks |-> InsertMap(forks[g], package_name, url)]
    /\ result' = InsertResult(forks[f], package_name, url, fork_markers)
    /\ last' = Call("insert", f, package_name, url, fork_markers,
                    Entry(forks[f], package_name))
    /\ UNCHANGED <<index_locations, cache, index, scans, scan>>

\* fork f calls insert(package_name, url, fork_markers)
ForkIndexes_insert(f, package_name, url, fork_markers) ==
    /\ forks' = [forks EXCEPT ![f] = InsertMap(@, package_name, url)]
    /\ result' = InsertResult(forks[f], package_name, url, fork_markers)
    /\ last' = Call("insert", f, package_name, url, fork_markers,
                    Entry(forks[f], package_name))
    /\ UNCHANGED <<index_locations, cache, index, scans, scan>>

\* fork f calls get(package_name)
ForkIndexes_get(f, package_name) ==
    /\ result' = GetResult(forks[f], package_name)
    /\ last' = Call("get", f, package_name, "-", NoMarkers,
                    Entry(forks[f], package_name))
    /\ UNCHANGED <<forks, index_locations, cache, index, scans, scan>>

\* the solver branches at fork f: #[derive(Clone)]
ForkIndexes_clone(f) ==
    /\ Len(forks) < MaxForks
    /\ forks' = Append(forks, forks[f])
    /\ result' = Ok
    /\ last' = Call("clone", f, "-", "-", NoMarkers, "-")
    /\ UNCHANGED <<index_locations, cache, index, scans, scan>>

---------------------------------------------------------------------------
(* RegistryWheelIndex: the values it reads *)

Versions == {1, 2}

\* The tag signatures a wheel filename can carry.
WheelTags == {"py3-none-any", "cp312-cp312-manylinux", "cp312-cp312-win32"}

\* TagCompatibility of a tag signature under the active tag set (`tags`):
\* Compatible(priority), or Incompatible.
TagCompatibility(tag) ==
    CASE tag = "py3-none-any"          -> [compatible |-> TRUE, priority |-> 2]
      [] tag = "cp312-cp312-manylinux" -> [compatible |-> TRUE, priority |-> 5]
      [] tag = "cp312-cp312-win32"     -> [compatible |-> FALSE, priority |-> 0]

\* WheelFilename::compatibility(tags)
compatibility(filename) == TagCompatibility(filename.tag)

\* TagCompatibility::is_compatible
is_compatible(c) == c.compatible

\* `a > b` on TagCompatibility: any Compatible is above any Incompatible,
\* two of the same kind compare by their payload.
CompatibilityGreater(a, b) ==
    IF a.compatible = b.compatible THEN a.priority > b.priority
    ELSE a.compatible

\* HashStrategy::get_package(name, version): the digests required, {} for none.
get_package(name, version) ==
    IF name = "foo" /\ version = 1 THEN {"sha256:aa"} ELSE {}

\* Hashed::satisfies(policy)
satisfies(hashes, policy) ==
    policy = {} \/ hashes \cap policy /= {}

GoodHashes == {"sha256:aa"}
BadHashes == {"sha256:ff"}

\* Index::from_extra_index_url
from_extra_index_url(url) == [url |-> url, default |-> FALSE]

DefaultIndex(url) == [url |-> url, default |-> TRUE]

\* The IndexLocations a RegistryWheelIndex can be built with: the allowed
\* indexes in priority order, and the flat indexes.
IndexLocations ==
    { [indexes |-> <<DefaultIndex("pypi"), from_extra_index_url("links")>>,
       flat_index |-> <<>>],
      [indexes |-> <<from_extra_index_url("links"), from_extra_index_url("extra"),
                     DefaultIndex("pypi")>>,
       flat_index |-> <<"links">>] }

\* IndexLocations::allowed_indexes
allowed_indexes(locations) == locations.indexes

\* IndexLocations::flat_index, collected into owned Index values
flat_index_urls(locations) ==
    [k \in 1..Len(locations.flat_index) |->
        from_extra_index_url(locations.flat_index[k])]

---------------------------------------------------------------------------
(* The cache: a set of entries, each one file or symlink of the cache tree *)

Unreadable == [ok |-> FALSE]

\* What a pointer file or a built-wheel directory reads as.
Wheel(name, version, tag, hashes) ==
    [ok |-> TRUE,
     filename |-> [name |-> name, version |-> version, tag |-> tag],
     hashes |-> hashes]

NoRevision == [present |-> FALSE]
Revision(id, hashes) == [present |-> TRUE, id |-> id, hashes |-> hashes]

\* A shard of the source-distribution bucket: its name and what its
\* HTTP_REVISION and LOCAL_REVISION entries read as.
Shard(name, http, local) == [name |-> name, http |-> http, local |-> local]

NoShard == Shard("-", NoRevision, NoRevision)

\* The extensions of file names, as their bytes: http, rev, and Http and
\* Rev for pointers written in another letter case; a name without
\* extension has none.
HttpExt == <<104, 116, 116, 112>>
RevExt == <<114, 101, 118>>
MixedHttpExt == <<72, 116, 116, 112>>
MixedRevExt == <<82, 101, 118>>
NoExt == <<>>

\* <wheels bucket>/<index>/<package>/<file>.<ext>
DirectEntry(url, package, ext, wheel) ==
    [bucket |-> "Wheels", url |-> url, package |-> package, ext |-> ext,
     shard |-> NoShard, dir |-> "-", wheel |-> wheel]

\* <sdists bucket>/<index>/<package>/<shard>/<dir>/<symlink>
BuiltEntry(url, package, shard, dir, wheel) ==
    [bucket |-> "SourceDistributions", url |-> url, package |-> package,
     ext |-> NoExt, shard |-> shard, dir |-> dir, wheel |-> wheel]

\* the extension of the pointer files of an index of this kind
NativeExt(url) == IF IndexUrlVariant(url) = "Path" THEN RevExt ELSE HttpExt

\* the same extension in another letter case
MixedExt(url) ==
    IF IndexUrlVariant(url) = "Path" THEN MixedRevExt ELSE MixedHttpExt

\* a shard whose revision pointer is of the kind the index reads
NativeShard(url, name, hashes) ==
    IF IndexUrlVariant(url) = "Path"
    THEN Shard(name, NoRevision, Revision("rev-1", hashes))
    ELSE Shard(name, Revision("rev-1", hashes), NoRevision)

\* a shard that holds only the pointer of the other kind
OtherShard(url, name, hashes) ==
    IF IndexUrlVariant(url) = "Path"
    THEN Shard(name, Revision("rev-1", hashes), NoRevision)
    ELSE Shard(name, NoRevision, Revision("rev-1", hashes))

\* The (version, tag) pairs of the well-formed wheels of package foo.
FooWheels ==
    { <<1, "py3-none-any">>, <<1, "cp312-cp312-manylinux">>,
      <<1, "cp312-cp312-win32">>, <<2, "py3-none-any">> }

\* The well-formed entries of one index for package foo: each wheel as a
\* direct download, and the compatible wheels of version 1 as build outputs
\* as well.
FooEntries(url) ==
    { DirectEntry(url, "foo", NativeExt(url), Wheel("foo", w[1], w[2], GoodHashes)) :
        w \in FooWheels }
    \cup
    { BuiltEntry(url, "foo", NativeShard(url, "sdist-a", GoodHashes), "rev-1",
                 Wheel("foo", w[1], w[2], {})) :
        w \in {x \in FooWheels : x[1] = 1 /\ x[2] /= "cp312-cp312-win32"} }

\* Entries that are malformed or rejected, one per way of being so; each
\* would be the best wheel of its version if it were admitted.
RejectedEntries ==
    { DirectEntry("pypi", "foo", HttpExt,
                  Wheel("foo", 1, "cp312-cp312-manylinux", BadHashes)),
      DirectEntry("pypi", "foo", HttpExt, Unreadable),
      DirectEntry("pypi", "foo", RevExt,
                  Wheel("foo", 1, "cp312-cp312-manylinux", GoodHashes)),
      DirectEntry("links", "foo", HttpExt,
                  Wheel("foo", 1, "cp312-cp312-manylinux", GoodHashes)),
      BuiltEntry("pypi", "foo", NativeShard("pypi", "sdist-b", BadHashes), "rev-1",
                 Wheel("foo", 1, "cp312-cp312-manylinux", {})),
      BuiltEntry("pypi", "foo", OtherShard("pypi", "sdist-c", GoodHashes), "rev-1",
                 Wheel("foo", 1, "cp312-cp312-manylinux", {})),
      BuiltEntry("links", "foo", Shard("sdist-d", NoRevision, NoRevision), "rev-1",
                 Wheel("foo", 1, "cp312-cp312-manylinux", {})),
      BuiltEntry("links", "foo", NativeShard("links", "sdist-a", GoodHashes), "rev-0",
                 Wheel("foo", 1, "cp312-cp312-manylinux", {})),
      BuiltEntry("links", "foo", NativeShard("links", "sdist-a", GoodHashes), "rev-1",
                 Unreadable) }

\* The entries of the whole cache.
CacheEntries ==
    FooEntries("pypi") \cup FooEntries("links") \cup RejectedEntries
    \cup
    { DirectEntry("pypi", "foo", MixedExt("pypi"),
                  Wheel("foo", 1, "cp312-cp312-manylinux", GoodHashes)),
      BuiltEntry("extra", "foo", NativeShard("extra", "sdist-a", GoodHashes),
                 "rev-1", Wheel("foo", 1, "cp312-cp312-manylinux", {})),
      BuiltEntry("pypi", "foo", NativeShard("pypi", "sdist-b", BadHashes), "rev-1",
                 Wheel("foo", 1, "py3-none-any", {})),
      DirectEntry("pypi", "bar", HttpExt,
                  Wheel("bar", 1, "py3-none-any", GoodHashes)) }

---------------------------------------------------------------------------
(* RegistryWheelIndex: population *)

\* the sequences that list each element of S once
RECURSIVE Permutations_of(_)
Permutations_of(S) ==
    IF S = {} THEN {<<>>}
    ELSE UNION {{<<x>> \o rest : rest \in Permutations_of(S \ {x})} : x \in S}

\* the orders of the entries of each directory in turn
RECURSIVE DirectoryOrders(_, _)
DirectoryOrders(S, dirs) ==
    IF dirs = <<>> THEN {<<>>}
    ELSE LET here == {e \in S : e.bucket = Head(dirs)[1] /\ e.url = Head(dirs)[2]}
         IN  {a \o b : a \in Permutations_of(here),
                       b \in DirectoryOrders(S, Tail(dirs))}

\* The orders in which the file system can enumerate the entries of a
\* package: uv_fs::files, directories and symlinks return the entries of a
\* directory unsorted. An order lists the entries of the package, those of
\* one index and bucket together.
ScanOrders(c, package) ==
    DirectoryOrders({e \in c : e.package = package},
                    << <<"Wheels", "pypi">>, <<"SourceDistributions", "pypi">>,
                       <<"Wheels", "extra">>, <<"SourceDistributions", "extra">>,
                       <<"Wheels", "links">>, <<"SourceDistributions", "links">> >>)

\* The entries of `order` that lie in S, in that order.
InOrder(S, order) ==
    LET member(e) == e \in S
    IN  SelectSeq(order, member)

\* uv_fs::files(wheel_dir) for the wheel directory of (url, package)
files(c, url, package) ==
    {e \in c : e.bucket = "Wheels" /\ e.url = url /\ e.package = package}

\* the entries below the shards of (url, package)
SourceEntries(c, url, package) ==
    {e \in c : e.bucket = "SourceDistributions" /\ e.url = url
               /\ e.package = package}

\* uv_fs::directories(cache_shard): the shards, each once, in the order of
\* their first entry
RECURSIVE directories(_)
directories(entries) ==
    IF entries = <<>> THEN <<>>
    ELSE LET rest == directories(SubSeq(entries, 1, Len(entries) - 1))
             sh == entries[Len(entries)].shard
         IN  IF \E k \in 1..Len(rest) : rest[k] = sh
             THEN rest
             ELSE Append(rest, sh)

\* uv_fs::symlinks(cache_shard.join(revision.id()))
symlinks(c, url, package, shard, dir) ==
    {e \in SourceEntries(c, url, package) : e.shard = shard /\ e.dir = dir}

\* u8::to_ascii_lowercase: A..Z to a..z, every other byte unchanged
to_ascii_lowercase(byte) ==
    IF byte \in 65..90 THEN byte + 32 ELSE byte

\* str::eq_ignore_ascii_case: the same length, and byte by byte the same
\* once lowered
eq_ignore_ascii_case(a, b) ==
    /\ Len(a) = Len(b)
    /\ \A k \in 1..Len(a) : to_ascii_lowercase(a[k]) = to_ascii_lowercase(b[k])

\* The CachedWheel read from an entry: from_http_pointer, from_local_pointer
\* or from_built_source.
CachedWheel(e) ==
    [filename |-> e.wheel.filename,
     path |-> <<e.bucket, e.ext, e.shard.name, e.dir>>,
     hashes |-> e.wheel.hashes]

\* CachedWheel::into_registry_dist
into_registry_dist(wheel) ==
    [filename |-> wheel.filename, path |-> wheel.path, hashes |-> wheel.hashes]

\* the pointer extension of a remote index, whatever the variant
PointerExtension_http(url) == HttpExt

\* The extension of the pointer files read for an index of this variant.
PointerExtension(url) ==
    IF IndexUrlVariant(url) \in {"Pypi", "Url"} THEN HttpExt ELSE RevExt

\* the first loop without the hash test before add_wheel
DirectWheels_unhashed(c, url, package, order) ==
    LET accepted(e) ==
            /\ eq_ignore_ascii_case(e.ext, PointerExtension(url))
            /\ e.wheel.ok
        seq == SelectSeq(InOrder(files(c, url, package), order), accepted)
    IN  [k \in 1..Len(seq) |-> CachedWheel(seq[k])]

\* the first loop giving up on the directory at an unreadable pointer
DirectWheels_abort(c, url, package, order) ==
    LET accepted(e) ==
            /\ eq_ignore_ascii_case(e.ext, PointerExtension(url))
            /\ e.wheel.ok
            /\ satisfies(e.wheel.hashes,
                         get_package(e.wheel.filename.name,
                                     e.wheel.filename.version))
        seq == SelectSeq(InOrder(files(c, url, package), order), accepted)
    IN  IF \E e \in files(c, url, package) : ~ e.wheel.ok
        THEN <<>>
        ELSE [k \in 1..Len(seq) |-> CachedWheel(seq[k])]

\* The wheels of the first loop that reach add_wheel, in scan order.
DirectWheels(c, url, package, order) ==
    LET accepted(e) ==
            /\ eq_ignore_ascii_case(e.ext, PointerExtension(url))
            /\ e.wheel.ok
            /\ satisfies(e.wheel.hashes,
                         get_package(e.wheel.filename.name,
                                     e.wheel.filename.version))
        seq == SelectSeq(InOrder(files(c, url, package), order), accepted)
    IN  [k \in 1..Len(seq) |-> CachedWheel(seq[k])]

\* The revision read from a shard: HTTP_REVISION for a remote index,
\* LOCAL_REVISION for a path index.
ReadRevision(url, shard) ==
    IF IndexUrlVariant(url) \in {"Pypi", "Url"} THEN shard.http ELSE shard.local

\* the second loop testing the hashes of the built wheel, not the revision's
ShardWheels_by_wheel(c, url, package, shard, order) ==
    LET revision == ReadRevision(url, shard)
        accepted(e) ==
            /\ e.wheel.ok
            /\ satisfies(e.wheel.hashes,
                         get_package(e.wheel.filename.name,
                                     e.wheel.filename.version))
    IN  IF revision.present
        THEN LET seq == SelectSeq(
                     InOrder(symlinks(c, url, package, shard, revision.id), order),
                     accepted)
             IN  [k \in 1..Len(seq) |-> CachedWheel(seq[k])]
        ELSE <<>>

\* The wheels of one shard that reach add_wheel, in scan order.
ShardWheels(c, url, package, shard, order) ==
    LET revision == ReadRevision(url, shard)
        accepted(e) ==
            /\ e.wheel.ok
            /\ satisfies(revision.hashes,
                         get_package(e.wheel.filename.name,
                                     e.wheel.filename.version))
    IN  IF revision.present
        THEN LET seq == SelectSeq(
                     InOrder(symlinks(c, url, package, shard, revision.id), order),
                     accepted)
             IN  [k \in 1..Len(seq) |-> CachedWheel(seq[k])]
        ELSE <<>>

\* The wheels of the second loop that reach add_wheel, in scan order.
RECURSIVE BuiltWheels(_, _, _, _, _)
BuiltWheels(c, url, package, shards, order) ==
    IF shards = <<>> THEN <<>>
    ELSE ShardWheels(c, url, package, Head(shards), order)
         \o BuiltWheels(c, url, package, Tail(shards), order)

\* add_wheel without the is_compatible test on a first sighting
add_wheel_any(wheel, versions) ==
    LET dist_info == into_registry_dist(wheel)
        version == dist_info.filename.version
        c == compatibility(dist_info.filename)
    IN  IF version \in DOMAIN versions
        THEN IF CompatibilityGreater(c, compatibility(versions[version].filename))
             THEN [versions EXCEPT ![version] = dist_info]
             ELSE versions
        ELSE [v \in DOMAIN versions \cup {version} |->
                 IF v = version THEN dist_info ELSE versions[v]]

\* add_wheel that overrides an existing record unless the new one is lower
add_wheel_last(wheel, versions) ==
    LET dist_info == into_registry_dist(wheel)
        version == dist_info.filename.version
        c == compatibility(dist_info.filename)
    IN  IF version \in DOMAIN versions
        THEN IF CompatibilityGreater(compatibility(versions[version].filename), c)
             THEN versions
             ELSE [versions EXCEPT ![version] = dist_info]
        ELSE IF is_compatible(c)
        THEN [v \in DOMAIN versions \cup {version} |->
                 IF v = version THEN dist_info ELSE versions[v]]
        ELSE versions

\* add_wheel that never overrides an existing record
add_wheel_first(wheel, versions) ==
    LET dist_info == into_registry_dist(wheel)
        version == dist_info.filename.version
        c == compatibility(dist_info.filename)
    IN  IF version \in DOMAIN versions
        THEN versions
        ELSE IF is_compatible(c)
        THEN [v \in DOMAIN versions \cup {version} |->
                 IF v = version THEN dist_info ELSE versions[v]]
        ELSE versions

\* RegistryWheelIndex::add_wheel: `versions` after the call
add_wheel(wheel, versions) ==
    LET dist_info == into_registry_dist(wheel)
        version == dist_info.filename.version
        c == compatibility(dist_info.filename)
    IN  IF version \in DOMAIN versions
        THEN IF CompatibilityGreater(c, compatibility(versions[version].filename))
             THEN [versions EXCEPT ![version] = dist_info]
             ELSE versions
        ELSE IF is_compatible(c)
        THEN [v \in DOMAIN versions \cup {version} |->
                 IF v = version THEN dist_info ELSE versions[v]]
        ELSE versions

\* add_wheel applied to each wheel of a sequence in turn
RECURSIVE AddWheels(_, _)
AddWheels(wheels, versions) ==
    IF wheels = <<>> THEN versions
    ELSE AddWheels(Tail(wheels), add_wheel(Head(wheels), versions))

\* BTreeMap::new()
NoVersions == [v \in {} |-> 0]

\* The body of the loop over the indexes: the versions of one index.
IndexVersions(c, idx, package, order) ==
    LET direct == DirectWheels(c, idx.url, package, order)
        shards == directories(InOrder(SourceEntries(c, idx.url, package), order))
        built == BuiltWheels(c, idx.url, package, shards, order)
    IN  AddWheels(direct \o built, NoVersions)

\* an insert that always appends a new entry
IndexMap_push(map, key, value) ==
    Append(map, [key |-> key, value |-> value])

\* IndexMap::insert: a new key goes last, a known key keeps its place
IndexMap_insert(map, key, value) ==
    IF \E k \in 1..Len(map) : map[k].key = key
    THEN [k \in 1..Len(map) |->
             IF map[k].key = key THEN [key |-> key, value |-> value] ELSE map[k]]
    ELSE Append(map, [key |-> key, value |-> value])

\* the loop over the indexes with one `versions` map for all of them
RECURSIVE IndexLoop_shared(_, _, _, _, _)
IndexLoop_shared(map, indexes, c, package, order) ==
    IF indexes = <<>> THEN map
    ELSE LET idx == Head(indexes)
             direct == DirectWheels(c, idx.url, package, order)
             shards == directories(
                           InOrder(SourceEntries(c, idx.url, package), order))
             built == BuiltWheels(c, idx.url, package, shards, order)
             versions ==
                 AddWheels(direct \o built,
                           IF map = <<>> THEN NoVersions
                           ELSE map[Len(map)].value)
         IN  IndexLoop_shared(IndexMap_insert(map, idx, versions),
                              Tail(indexes), c, package, order)

\* the loop over the indexes, from the map built so far
RECURSIVE IndexLoop(_, _, _, _, _)
IndexLoop(map, indexes, c, package, order) ==
    IF indexes = <<>> THEN map
    ELSE IndexLoop(
            IndexMap_insert(map, Head(indexes),
                            IndexVersions(c, Head(indexes), package, order)),
            Tail(indexes), c, package, order)

\* RegistryWheelIndex::index
RegistryWheelIndex_index(package, c, locations, order) ==
    IndexLoop(<<>>,
              allowed_indexes(locations) \o flat_index_urls(locations),
              c, package, order)

\* the keys of a BTreeMap in iteration order: ascending
RECURSIVE Ascending(_)
Ascending(S) ==
    IF S = {} THEN <<>>
    ELSE LET m == CHOOSE x \in S : \A y \in S : x <= y
         IN  <<m>> \o Ascending(S \ {m})

\* the triples of one index, in the order the iterator yields them
Triples(entry) ==
    LET vs == Ascending(DOMAIN entry.value)
    IN  [k \in 1..Len(vs) |->
            [index |-> entry.key, version |-> vs[k], dist |-> entry.value[vs[k]]]]

\* the iterator of RegistryWheelIndex::get over one entry of `index`
RECURSIVE flat_map(_)
flat_map(by_index) ==
    IF by_index = <<>> THEN <<>>
    ELSE Triples(Head(by_index)) \o flat_map(Tail(by_index))

\* a get_impl whose Vacant arm replaces the map by the new entry alone
get_impl_clobber(idx, name, indexed) ==
    IF name \in DOMAIN idx
    THEN [index |-> idx, indexed |-> FALSE]
    ELSE [index |-> [p \in {name} |-> indexed],
          indexed |-> TRUE]

\* a get_impl that indexes the package on every call
get_impl_always(idx, name, indexed) ==
    [index |-> [p \in DOMAIN idx \cup {name} |->
                   IF p = name THEN indexed ELSE idx[p]],
     indexed |-> TRUE]

\* RegistryWheelIndex::get_impl: `index` after the call, and whether the
\* entry was vacant, so that RegistryWheelIndex::index ran; `indexed` is
\* what RegistryWheelIndex::index returns when it runs
get_impl(idx, name, indexed) ==
    IF name \in DOMAIN idx
    THEN [index |-> idx, indexed |-> FALSE]
    ELSE [index |-> [p \in DOMAIN idx \cup {name} |->
                        IF p = name THEN indexed ELSE idx[p]],
          indexed |-> TRUE]

\* No RegistryWheelIndex::index call is in progress.
Idle ==
    [pc |-> "idle", package |-> "-", indexes |-> <<>>, map |-> <<>>,
     versions |-> NoVersions, files |-> <<>>, shards |-> <<>>, wheels |-> <<>>]

\* RegistryWheelIndex::get(name) while no other process touches the cache:
\* the whole lookup as one step, the file system enumerating in `order`
RegistryWheelIndex_get(name, order) ==
    LET after == get_impl(index, name,
                          RegistryWheelIndex_index(name, cache, index_locations,
                                                   order))
    IN  /\ scan = Idle
        /\ index' = after.index
        /\ scans' = [scans EXCEPT ![name] = IF after.indexed THEN @ + 1 ELSE @]
        /\ result' = [kind |-> "Iter", items |-> flat_map(after.index[name])]
        /\ last' = Call("registry_get", 0, name, "-", NoMarkers, "-")
        /\ UNCHANGED <<forks, index_locations, cache, scan>>

---------------------------------------------------------------------------
(* RegistryWheelIndex: a lookup next to processes that change the cache *)

\* RegistryWheelIndex::index reads the file system call by call, and other
\* processes may change the cache between two of its calls.  Each action
\* below is one such call with what the code does up to the next one; a
\* listing is kept as it was read, and a file listed earlier is read as it
\* is when the code comes to it, or not at all when it is gone.

\* a step inside RegistryWheelIndex::index
IndexStep(next) ==
    /\ scan' = next
    /\ last' = Call("registry_index", 0, scan.package, Head(scan.indexes).url,
                    NoMarkers, "-")
    /\ result' = Ok
    /\ UNCHANGED <<forks, index_locations, cache, index, scans>>

\* get_impl, Occupied arm: the recorded entry is returned
get_Occupied(name) ==
    LET after == get_impl(index, name, <<>>)
    IN  /\ scan = Idle
        /\ ~ after.indexed
        /\ index' = after.index
        /\ result' = [kind |-> "Iter", items |-> flat_map(after.index[name])]
        /\ last' = Call("registry_get", 0, name, "-", NoMarkers, "Occupied")
        /\ UNCHANGED <<forks, index_locations, cache, scans, scan>>

\* get_impl, Vacant arm: RegistryWheelIndex::index is called, and starts
\* with an empty map at the first index
get_Vacant(name) ==
    /\ scan = Idle
    /\ get_impl(index, name, <<>>).indexed
    /\ scan' = [Idle EXCEPT
                  !.pc = "files", !.package = name,
                  !.indexes = allowed_indexes(index_locations)
                              \o flat_index_urls(index_locations)]
    /\ last' = Call("registry_index", 0, name, "-", NoMarkers, "-")
    /\ result' = Ok
    /\ UNCHANGED <<forks, index_locations, cache, index, scans>>

\* files(&wheel_dir) for the index at hand, a fresh `versions` map
index_files ==
    /\ scan.pc = "files"
    /\ \E order \in Permutations_of(files(cache, Head(scan.indexes).url,
                                          scan.package)) :
        IndexStep([scan EXCEPT !.pc = "pointer", !.files = order,
                               !.versions = NoVersions])

\* the body of the first loop for the next file listed: the pointer is
\* read, if it is still there, and its wheel handed to add_wheel
index_pointer ==
    /\ scan.pc = "pointer"
    /\ scan.files /= <<>>
    /\ LET e == Head(scan.files)
           wheels == DirectWheels(cache \cap {e}, Head(scan.indexes).url,
                                  scan.package, <<e>>)
       IN  IndexStep([scan EXCEPT !.files = Tail(@),
                                  !.versions = AddWheels(wheels, @)])

\* directories(&cache_shard), after the last file of the first loop
index_directories ==
    /\ scan.pc = "pointer"
    /\ scan.files = <<>>
    /\ \E order \in Permutations_of(
                        SourceEntries(cache, Head(scan.indexes).url,
                                      scan.package)) :
        IndexStep([scan EXCEPT !.pc = "shard", !.shards = directories(order)])

\* the revision pointer of the next shard is read: the shard is scanned
\* if it is still there and holds the pointer of the index kind, and
\* skipped otherwise
index_revision ==
    /\ scan.pc = "shard"
    /\ scan.shards /= <<>>
    /\ LET shard == Head(scan.shards)
           url == Head(scan.indexes).url
           there == \E e \in SourceEntries(cache, url, scan.package) :
                        e.shard = shard
       IN  IF there /\ ReadRevision(url, shard).present
           THEN IndexStep([scan EXCEPT !.pc = "symlinks"])
           ELSE IndexStep([scan EXCEPT !.shards = Tail(@)])

\* symlinks(cache_shard.join(revision.id())) of the shard at hand
index_symlinks ==
    /\ scan.pc = "symlinks"
    /\ LET shard == Head(scan.shards)
           url == Head(scan.indexes).url
       IN  \E order \in Permutations_of(
                            symlinks(cache, url, scan.package, shard,
                                     ReadRevision(url, shard).id)) :
               IndexStep([scan EXCEPT !.pc = "built", !.wheels = order])

\* the body of the inner loop for the next built wheel listed: it is read,
\* if it is still there, and handed to add_wheel when the revision passes
index_built ==
    /\ scan.pc = "built"
    /\ scan.wheels /= <<>>
    /\ LET e == Head(scan.wheels)
           wheels == ShardWheels(cache \cap {e}, Head(scan.indexes).url,
                                 scan.package, Head(scan.shards), <<e>>)
       IN  IndexStep([scan EXCEPT !.wheels = Tail(@),
                                  !.versions = AddWheels(wheels, @)])

\* the inner loop is over: on to the next shard
index_next_shard ==
    /\ scan.pc = "built"
    /\ scan.wheels = <<>>
    /\ IndexStep([scan EXCEPT !.pc = "shard", !.shards = Tail(@)])

\* map.insert(index.clone(), versions) after the last shard, then the next
\* index, or the end of the loop over the indexes
index_insert ==
    /\ scan.pc = "shard"
    /\ scan.shards = <<>>
    /\ IndexStep([scan EXCEPT
                    !.pc = IF Tail(scan.indexes) = <<>> THEN "return"
                           ELSE "files",
                    !.map = IndexMap_insert(@, Head(scan.indexes),
                                            scan.versions),
                    !.versions = NoVersions,
                    !.indexes = Tail(@)])

\* RegistryWheelIndex::index returns its map, get_impl inserts it under
\* the package and get returns its triples
get_return ==
    LET name == scan.package
        after == get_impl(index, name, scan.map)
    IN  /\ scan.pc = "return"
        /\ index' = after.index
        /\ scans' = [scans EXCEPT ![name] = IF after.indexed THEN @ + 1 ELSE @]
        /\ result' = [kind |-> "Iter", items |-> flat_map(after.index[name])]
        /\ last' = Call("registry_get", 0, name, "-", NoMarkers, "Vacant")
        /\ scan' = Idle
        /\ UNCHANGED <<forks, index_locations, cache>>

\* another process adds an entry to the cache
CacheWrite(e) ==
    /\ e \notin cache
    /\ cache' = cache \cup {e}
    /\ last' = Call("cache_write", 0, e.package, e.url, NoMarkers, "-")
    /\ result' = Ok
    /\ UNCHANGED <<forks, index_locations, index, scans, scan>>

\* another process removes an entry from the cache
CacheRemove(e) ==
    /\ e \in cache
    /\ cache' = cache \ {e}
    /\ last' = Call("cache_remove", 0, e.package, e.url, NoMarkers, "-")
    /\ result' = Ok
    /\ UNCHANGED <<forks, index_locations, index, scans, scan>>

---------------------------------------------------------------------------
(* Specifications *)

\* the number of entries in the cache when the index is built
MaxEntries == 3

\* the subsets of S of at most k elements
RECURSIVE SubsetsUpTo(_, _)
SubsetsUpTo(S, k) ==
    IF k = 0 THEN {{}}
    ELSE LET smaller == SubsetsUpTo(S, k - 1)
         IN  smaller \cup {T \cup {x} : T \in smaller, x \in S}

\* RegistryWheelIndex::new: nothing indexed
NoIndex == [p \in {} |-> <<>>]

Start == Call("new", 0, "-", "-", NoMarkers, "-")

\* The IndexLocations of a resolution that tracks its forks: two indexes.
ResolutionLocations ==
    { [indexes |-> <<DefaultIndex("pypi"), from_extra_index_url("links")>>,
       flat_index |-> <<>>],
      [indexes |-> <<DefaultIndex("pypi"), from_extra_index_url("extra")>>,
       flat_index |-> <<>>] }

\* The trackers of a resolution: one fork, nothing pinned.
ForkInit ==
    /\ forks = <<ForkIndexes_default>>
    /\ index_locations \in ResolutionLocations
    /\ cache = {}
    /\ index = NoIndex
    /\ scans = [p \in PackageNames |-> 0]
    /\ scan = Idle
    /\ last = Start
    /\ result = Ok

\* The resolver pins a package to one of the configured indexes.
ForkNext ==
    \E f \in 1..Len(forks) :
        \/ \E package_name \in PackageNames,
              k \in 1..Len(index_locations.indexes),
              fork_markers \in ResolverMarkers :
                ForkIndexes_insert(f, package_name,
                                   index_locations.indexes[k].url, fork_markers)
        \/ \E package_name \in PackageNames : ForkIndexes_get(f, package_name)
        \/ ForkIndexes_clone(f)

ForkSpec == ForkInit /\ [][ForkNext]_vars

\* A new RegistryWheelIndex over any configuration and any cache content.
ScanInit ==
    /\ forks = <<ForkIndexes_default>>
    /\ index_locations \in IndexLocations
    /\ cache \in SubsetsUpTo(CacheEntries, MaxEntries)
    /\ index = NoIndex
    /\ scans = [p \in PackageNames |-> 0]
    /\ scan = Idle
    /\ last = Start
    /\ result = Ok

ScanNext ==
    \E name \in PackageNames :
        \E order \in ScanOrders(cache, name) : RegistryWheelIndex_get(name, order)

ScanSpec == ScanInit /\ [][ScanNext]_vars

\* The entries other processes write and remove while the index is in use.
ChangingEntries ==
    { DirectEntry("pypi", "foo", HttpExt,
                  Wheel("foo", 1, "py3-none-any", GoodHashes)),
      BuiltEntry("pypi", "foo", NativeShard("pypi", "sdist-a", GoodHashes),
                 "rev-1", Wheel("foo", 1, "cp312-cp312-manylinux", {})),
      DirectEntry("links", "foo", RevExt,
                  Wheel("foo", 2, "py3-none-any", GoodHashes)),
      DirectEntry("pypi", "bar", HttpExt,
                  Wheel("bar", 1, "py3-none-any", GoodHashes)) }

\* A new RegistryWheelIndex over an empty cache that other processes fill.
MemoInit ==
    /\ forks = <<ForkIndexes_default>>
    /\ index_locations \in IndexLocations
    /\ cache = {}
    /\ index = NoIndex
    /\ scans = [p \in PackageNames |-> 0]
    /\ scan = Idle
    /\ last = Start
    /\ result = Ok

MemoNext ==
    \/ \E name \in PackageNames : get_Occupied(name) \/ get_Vacant(name)
    \/ index_files
    \/ index_directories
    \/ index_symlinks
    \/ index_pointer
    \/ index_revision
    \/ index_built
    \/ index_next_shard
    \/ index_insert
    \/ get_return
    \/ \E e \in ChangingEntries : CacheWrite(e)
    \/ \E e \in ChangingEntries : CacheRemove(e)

MemoSpec == MemoInit /\ [][MemoNext]_vars

---------------------------------------------------------------------------
(* ForkIndexes: properties *)

ConflictKinds == {"ConflictingIndexesUniversal", "ConflictingIndexesFork"}

\* `indexes` holds exactly the string forms of the two index URLs, the
\* smaller string first.
SortedPairOf(indexes, url1, url2) ==
    /\ Len(indexes) = 2
    /\ ~StringLess(indexes[2], indexes[1])
    /\ \/ indexes = <<IndexUrl_to_string(url1), IndexUrl_to_string(url2)>>
       \/ indexes = <<IndexUrl_to_string(url2), IndexUrl_to_string(url1)>>

\* C1: an insert for an unset package succeeds; an insert for a package
\* pinned to another index fails, and the error carries the string forms of
\* the two indexes in lexicographic order, which is also the pair reported
\* when the two indexes are inserted in the opposite order.
C1_ConflictDetection ==
    [][last'.op = "insert" =>
        LET map == forks[last'.fork]
            p == last'.package_name
            i2 == last'.url
        IN  /\ p \notin DOMAIN map => result' = Ok
            /\ (p \in DOMAIN map /\ map[p] /= i2) =>
                  /\ result'.kind \in ConflictKinds
                  /\ SortedPairOf(result'.indexes, map[p], i2)
                  /\ result'.indexes =
                        InsertResult(InsertMap(ForkIndexes_default, p, i2),
                                     p, map[p], last'.fork_markers).indexes
    ]_vars

\* C1 witness: a conflict whose error lists the rejected index before the
\* pinned one.
C1_Witness ==
    /\ last.op = "insert"
    /\ result.kind \in ConflictKinds
    /\ result.indexes[1] = IndexUrl_to_string(last.url)
    /\ result.indexes[2] = IndexUrl_to_string(forks[last.fork][last.package_name])

\* C2: a pin, once made, is never changed or removed by any call; a failing
\* insert changes nothing; get returns the pin.
C2_PinStability ==
    [][/\ \A f \in 1..Len(forks) : \A p \in DOMAIN forks[f] :
            /\ f \in 1..Len(forks')
            /\ p \in DOMAIN forks'[f]
            /\ forks'[f][p] = forks[f][p]
       /\ \A f \in 1..Len(forks') : \A p \in DOMAIN forks'[f] :
            forks'[f][p] \in IndexUrls
       /\ result'.kind \in ConflictKinds => forks' = forks
       /\ (last'.op = "insert" /\ last'.entry = "Vacant" /\ result' = Ok) =>
            forks'[last'.fork][last'.package_name] = last'.url
       /\ (last'.op = "get" /\ last'.entry = "Occupied") =>
            result' = [kind |-> "Some",
                       value |-> forks[last'.fork][last'.package_name]]
    ]_vars

\* C2 witness: a failed insert, the package still pinned to the other index.
C2_Witness ==
    /\ last.op = "insert"
    /\ result.kind \in ConflictKinds
    /\ last.package_name \in DOMAIN forks[last.fork]
    /\ forks[last.fork][last.package_name] /= last.url

\* C3: an insert of the index a package is already pinned to succeeds and
\* leaves every tracker as it was, whatever the fork context.
C3_Idempotence ==
    [][(/\ last'.op = "insert"
        /\ last'.package_name \in DOMAIN forks[last'.fork]
        /\ forks[last'.fork][last'.package_name] = last'.url) =>
            /\ result' = Ok
            /\ forks' = forks
            /\ forks'[last'.fork][last'.package_name] = last'.url
    ]_vars

\* C3 witness: a successful insert that found the entry occupied.
C3_Witness ==
    /\ last.op = "insert"
    /\ last.entry = "Occupied"
    /\ result = Ok
    /\ forks[last.fork][last.package_name] = last.url

\* C4: a clone starts with the pins of its origin and no tracker ever loses
\* a pin; an insert on one tracker changes no other tracker, and succeeds
\* for a package unset in it whatever the other trackers pin.
C4_Isolation ==
    [][/\ \A g \in 1..Len(forks) : \A p \in DOMAIN forks[g] :
            p \in DOMAIN forks'[g] /\ forks'[g][p] = forks[g][p]
       /\ last'.op = "clone" =>
            /\ Len(forks') = Len(forks) + 1
            /\ forks'[Len(forks')] = forks[last'.fork]
            /\ \A g \in 1..Len(forks) : forks'[g] = forks[g]
       /\ last'.op \in {"insert", "get"} =>
            /\ Len(forks') = Len(forks)
            /\ \A g \in 1..Len(forks) : g /= last'.fork => forks'[g] = forks[g]
       /\ (last'.op = "insert" /\ last'.package_name \notin DOMAIN forks[last'.fork]) =>
            result' = Ok
    ]_vars

\* C4 witness: two trackers pin the same package to different indexes, the
\* last insert having succeeded.
C4_Witness ==
    /\ Len(forks) >= 2
    /\ last.op = "insert"
    /\ result = Ok
    /\ \E f, g \in 1..Len(forks) :
          /\ last.fork = f
          /\ last.package_name \in DOMAIN forks[f] \cap DOMAIN forks[g]
          /\ forks[f][last.package_name] /= forks[g][last.package_name]

\* C5: the variant of a conflict error follows the fork context of the
\* failing insert: Universal and SpecificEnvironment give
\* ConflictingIndexesUniversal with the package and the two index strings,
\* Fork gives ConflictingIndexesFork with these and the markers of the fork.
C5_ErrorVariant ==
    [][(/\ last'.op = "insert"
        /\ last'.package_name \in DOMAIN forks[last'.fork]
        /\ forks[last'.fork][last'.package_name] /= last'.url) =>
            LET pinned == forks[last'.fork][last'.package_name]
                ctx == last'.fork_markers
            IN  /\ result'.package_name = last'.package_name
                /\ {result'.indexes[k] : k \in DOMAIN result'.indexes} =
                      {IndexUrl_to_string(pinned), IndexUrl_to_string(last'.url)}
                /\ ctx.kind \in {"Universal", "SpecificEnvironment"} =>
                      /\ result'.kind = "ConflictingIndexesUniversal"
                      /\ DOMAIN result' = {"kind", "package_name", "indexes"}
                /\ ctx.kind = "Fork" =>
                      /\ result'.kind = "ConflictingIndexesFork"
                      /\ DOMAIN result' =
                            {"kind", "package_name", "indexes", "fork_markers"}
                      /\ result'.fork_markers = ctx.markers
    ]_vars

\* C5 witness: a conflict under a SpecificEnvironment context.
C5_Witness ==
    /\ last.op = "insert"
    /\ last.fork_markers.kind = "SpecificEnvironment"
    /\ result.kind = "ConflictingIndexesUniversal"

\* C6: for a package unset in a tracker, get returns None and an insert of
\* any index under any context succeeds, after which the package is pinned
\* to that index and get returns it.
C6_UnsetPackage ==
    [][/\ (last'.op = "get" /\ last'.package_name \notin DOMAIN forks[last'.fork]) =>
            result' = [kind |-> "None"]
       /\ (last'.op = "insert" /\ last'.package_name \notin DOMAIN forks[last'.fork]) =>
            /\ result' = Ok
            /\ last'.package_name \in DOMAIN forks'[last'.fork]
            /\ forks'[last'.fork][last'.package_name] = last'.url
       /\ (last'.op = "get" /\ last'.package_name \in DOMAIN forks[last'.fork]) =>
            result' = [kind |-> "Some",
                       value |-> forks[last'.fork][last'.package_name]]
    ]_vars

\* C6 witness: a get that returns the index an insert pinned.
C6_Witness ==
    /\ last.op = "get"
    /\ result.kind = "Some"
    /\ result.value = forks[last.fork][last.package_name]

---------------------------------------------------------------------------
(* RegistryWheelIndex: properties *)

\* an extension spells the lower-case word `word` in some letter case
Spells(ext, word) ==
    /\ Len(ext) = Len(word)
    /\ \A k \in 1..Len(word) : ext[k] \in {word[k], word[k] - 32}

\* the indexes population visits, in the order it visits them
ConfiguredIndexes(locations) ==
    allowed_indexes(locations) \o flat_index_urls(locations)

\* the place of an index in the configured order: its first occurrence
Priority(locations, idx) ==
    CHOOSE k \in 1..Len(ConfiguredIndexes(locations)) :
        /\ ConfiguredIndexes(locations)[k] = idx
        /\ \A j \in 1..(k - 1) : ConfiguredIndexes(locations)[j] /= idx

\* the versions map recorded for an index in an entry of `index`
VersionsOf(by_index, idx) ==
    LET k == CHOOSE k \in 1..Len(by_index) : by_index[k].key = idx
    IN  by_index[k].value

\* The candidates sighted for (package, idx): the readable wheels of both
\* storage areas of the index that population reads and that pass the hash
\* policy, whatever the order of the scan.
Sighted(c, idx, package) ==
    LET remote == IndexUrlVariant(idx.url) \in {"Pypi", "Url"}
        passes(e, hashes) ==
            satisfies(hashes, get_package(e.wheel.filename.name,
                                          e.wheel.filename.version))
        direct(e) ==
            /\ e.bucket = "Wheels"
            /\ Spells(e.ext, IF remote THEN HttpExt ELSE RevExt)
            /\ e.wheel.ok
            /\ passes(e, e.wheel.hashes)
        built(e) ==
            LET revision == IF remote THEN e.shard.http ELSE e.shard.local
            IN  /\ e.bucket = "SourceDistributions"
                /\ revision.present
                /\ e.dir = revision.id
                /\ e.wheel.ok
                /\ passes(e, revision.hashes)
    IN  {into_registry_dist(CachedWheel(e)) :
            e \in {x \in c : /\ x.package = package
                             /\ x.url = idx.url
                             /\ (direct(x) \/ built(x))}}

\* C7: the entry of a package, once populated, never changes, whatever
\* happens to the cache and whichever packages are looked up; population
\* runs at most once per package, on the first get, and a later get returns
\* the triples of the recorded entry.
C7_Memoization ==
    [][/\ \A p \in DOMAIN index : p \in DOMAIN index' /\ index'[p] = index[p]
       /\ \A p \in PackageNames : scans'[p] <= 1
       /\ last'.op = "registry_get" =>
            LET p == last'.package_name
            IN  IF p \in DOMAIN index
                THEN /\ scans' = scans
                     /\ result'.items = flat_map(index[p])
                ELSE /\ scans'[p] = scans[p] + 1
                     /\ p \in DOMAIN index'
                     /\ result'.items = flat_map(index'[p])
    ]_vars

\* C7 witness: a get of an indexed package after the cache has changed so
\* that no scan of the present cache would give what the get returned.
C7_Witness ==
    /\ last.op = "registry_get"
    /\ last.entry = "Occupied"
    /\ scans[last.package_name] = 1
    /\ \A order \in ScanOrders(cache, last.package_name) :
          flat_map(RegistryWheelIndex_index(last.package_name, cache,
                                            index_locations, order))
            /= result.items
    /\ result.items /= <<>>

\* C8: the triples get returns list the indexes in configured order, each
\* index's triples together, and within an index the versions strictly
\* ascending.
C8_OutputOrdering ==
    last.op = "registry_get" =>
        \A k, l \in 1..Len(result.items) :
            k < l =>
                LET a == result.items[k]
                    b == result.items[l]
                IN  /\ Priority(index_locations, a.index)
                          <= Priority(index_locations, b.index)
                    /\ a.index = b.index => a.version < b.version

\* C8 witness: a result with two versions of one index and a triple of
\* another index, under a configuration with a flat index.
C8_Witness ==
    /\ last.op = "registry_get"
    /\ index_locations.flat_index /= <<>>
    /\ \E k, l, m \in 1..Len(result.items) :
          /\ result.items[k].index = result.items[l].index
          /\ result.items[k].version /= result.items[l].version
          /\ result.items[m].index /= result.items[k].index

\* C9: no wheel that is incompatible with the active tags is recorded in
\* the index or returned by get.
C9_CompatibilityAdmission ==
    /\ \A p \in DOMAIN index : \A k \in 1..Len(index[p]) :
          \A v \in DOMAIN index[p][k].value :
              is_compatible(compatibility(index[p][k].value[v].filename))
    /\ last.op = "registry_get" =>
          \A k \in 1..Len(result.items) :
              is_compatible(compatibility(result.items[k].dist.filename))

\* C9 witness: after a get, one index for which an incompatible wheel and a
\* compatible wheel of one version were sighted, and another index for which
\* only incompatible wheels were sighted.
C9_Witness ==
    /\ last.op = "registry_get"
    /\ \E idx \in {result.items[k].index : k \in 1..Len(result.items)} :
          LET S == Sighted(cache, idx, last.package_name)
          IN  \E w1, w2 \in S :
                /\ w1.filename.version = w2.filename.version
                /\ ~is_compatible(compatibility(w1.filename))
                /\ is_compatible(compatibility(w2.filename))
    /\ \E i \in 1..Len(ConfiguredIndexes(index_locations)) :
          LET S == Sighted(cache, ConfiguredIndexes(index_locations)[i],
                           last.package_name)
          IN  /\ S /= {}
              /\ \A w \in S : ~is_compatible(compatibility(w.filename))

\* C10 as claimed: for every index and version with a sighted candidate,
\* exactly one candidate is retained and none sighted ranks above it.
C10_BestOfVersion_AsClaimed ==
    \A p \in DOMAIN index :
        \A i \in 1..Len(ConfiguredIndexes(index_locations)) :
            LET idx == ConfiguredIndexes(index_locations)[i]
                S == Sighted(cache, idx, p)
                V == VersionsOf(index[p], idx)
            IN  \A v \in {w.filename.version : w \in S} :
                    /\ v \in DOMAIN V
                    /\ V[v] \in S
                    /\ \A w \in S : w.filename.version = v =>
                          ~CompatibilityGreater(compatibility(w.filename),
                                                compatibility(V[v].filename))

\* C10 amended: for every index and version, if a compatible candidate was
\* sighted, in either storage area, exactly one sighted candidate of that
\* version is retained and none sighted ranks above it; if none of the
\* sighted candidates is compatible, none is retained.
C10_BestOfVersion ==
    \A p \in DOMAIN index :
        \A i \in 1..Len(ConfiguredIndexes(index_locations)) :
            LET idx == ConfiguredIndexes(index_locations)[i]
                S == Sighted(cache, idx, p)
                V == VersionsOf(index[p], idx)
            IN  \A v \in Versions :
                    LET Sv == {w \in S : w.filename.version = v}
                    IN  IF \E w \in Sv : is_compatible(compatibility(w.filename))
                        THEN /\ v \in DOMAIN V
                             /\ V[v] \in Sv
                             /\ \A w \in Sv :
                                   ~CompatibilityGreater(
                                       compatibility(w.filename),
                                       compatibility(V[v].filename))
                        ELSE v \notin DOMAIN V

\* C10 witness: a priority-2 direct download and a priority-5 build output
\* of one version in one index, the build output retained.
C10_Witness ==
    /\ last.op = "registry_get"
    /\ \E k \in 1..Len(result.items) :
          LET item == result.items[k]
              S == Sighted(cache, item.index, last.package_name)
          IN  /\ item.dist.path[1] = "SourceDistributions"
              /\ compatibility(item.dist.filename).priority = 5
              /\ \E w \in S : /\ w.filename.version = item.version
                              /\ w.path[1] = "Wheels"
                              /\ compatibility(w.filename).priority = 2

\* the distribution a cache entry stands for
EntryDist(e) == into_registry_dist(CachedWheel(e))

\* the revision pointer of a built wheel's shard that its index kind reads
RevisionFor(e) ==
    IF IndexUrlVariant(e.url) \in {"Pypi", "Url"}
    THEN e.shard.http ELSE e.shard.local

\* the hashes the policy is applied to: the wheel's own for a direct
\* download, the source revision's for a built wheel
HashSubject(e) ==
    IF e.bucket = "Wheels" THEN e.wheel.hashes ELSE RevisionFor(e).hashes

\* a readable candidate whose hash subject does not satisfy the policy of
\* its (name, version)
HashRejected(e) ==
    /\ e.wheel.ok
    /\ e.bucket = "SourceDistributions" => RevisionFor(e).present
    /\ ~ satisfies(HashSubject(e),
                   get_package(e.wheel.filename.name,
                               e.wheel.filename.version))

\* the compatibility priority recorded for each version of each index
Rankings(by_index) ==
    [k \in 1..Len(by_index) |->
        [key   |-> by_index[k].key,
         value |-> [v \in DOMAIN by_index[k].value |->
                        compatibility(by_index[k].value[v].filename)]]]

\* C11: a candidate whose hash subject fails the hash policy of its
\* (name, version) is never recorded nor returned by get, and it neither
\* displaces nor blocks another candidate: the entry of the package is an
\* entry that population yields from the cache without the rejected
\* candidates; the lookup still returns an iterator, never an error.
C11_HashGating ==
    /\ \A package \in DOMAIN index :
        LET rejected == {e \in cache : e.package = package /\ HashRejected(e)}
            kept == cache \ rejected
        IN  /\ \A k \in 1..Len(index[package]) :
                \A v \in DOMAIN index[package][k].value :
                    \A e \in rejected :
                        e.url = index[package][k].key.url
                            => index[package][k].value[v] /= EntryDist(e)
            /\ \E order \in ScanOrders(kept, package) :
                index[package] =
                    RegistryWheelIndex_index(package, kept, index_locations,
                                             order)
    /\ last.op = "registry_get" =>
        /\ result.kind = "Iter"
        /\ \A k \in 1..Len(result.items) :
            \A e \in cache :
                (/\ e.package = last.package_name
                 /\ HashRejected(e)
                 /\ e.url = result.items[k].index.url)
                    => result.items[k].dist /= EntryDist(e)

\* C11 case: a lookup over a cache where, for one index and version, a
\* hash-rejected candidate outranks a passing one, and the passing one is
\* returned.
C11_Witness ==
    /\ last.op = "registry_get"
    /\ \E k \in 1..Len(result.items) :
        \E e \in cache :
            /\ e.package = last.package_name
            /\ e.url = result.items[k].index.url
            /\ HashRejected(e)
            /\ e.wheel.filename.version = result.items[k].version
            /\ CompatibilityGreater(compatibility(e.wheel.filename),
                                    compatibility(result.items[k].dist.filename))

\* a record population fails to read: an unreadable pointer or built wheel,
\* or a built wheel in a shard without the revision pointer its index reads
Malformed(e) ==
    \/ ~ e.wheel.ok
    \/ e.bucket = "SourceDistributions" /\ ~ RevisionFor(e).present

\* C12: a lookup never fails, and a record that cannot be read contributes
\* no candidate and stops nothing else: the result is an iterator, no
\* built wheel of a shard without a readable revision pointer is recorded,
\* and the entry of the package is an entry that population yields from
\* the cache without the unreadable records.
C12_FailureAbsorption ==
    /\ last.op = "registry_get" => result.kind = "Iter"
    /\ \A package \in DOMAIN index :
        LET broken == {e \in cache : e.package = package /\ Malformed(e)}
            kept == cache \ broken
        IN  /\ \A k \in 1..Len(index[package]) :
                \A v \in DOMAIN index[package][k].value :
                    \A e \in broken :
                        (e.wheel.ok /\ e.url = index[package][k].key.url)
                            => index[package][k].value[v] /= EntryDist(e)
            /\ \E order \in ScanOrders(kept, package) :
                index[package] =
                    RegistryWheelIndex_index(package, kept, index_locations,
                                             order)

\* C12 case: a lookup over a cache that holds, for one index, an unreadable
\* direct-download pointer next to a readable one and a built wheel without
\* a revision pointer or unreadable, and the readable direct-download
\* candidate is returned.
C12_Witness ==
    /\ last.op = "registry_get"
    /\ \E k \in 1..Len(result.items) :
        /\ result.items[k].dist.path[1] = "Wheels"
        /\ \E e \in cache :
            /\ e.package = last.package_name
            /\ e.url = result.items[k].index.url
            /\ e.bucket = "Wheels"
            /\ ~ e.wheel.ok
    /\ \E e \in cache :
        /\ e.package = last.package_name
        /\ e.bucket = "SourceDistributions"
        /\ Malformed(e)

\* C13: lookups of any packages by any callers, each one exclusive access
\* to the index and interleaved in any order with changes of the cache,
\* also while a lookup populates: a lookup of p writes the entry of p only
\* when there is none, so at most once, and writes nothing before it
\* returns; a later lookup of p returns the triples of the entry the first
\* one wrote; and no lookup changes or drops the entry of another package.
C13_InterleavedLookups ==
    [][/\ last'.op = "registry_get" =>
            LET p == last'.package_name
            IN  /\ DOMAIN index' = DOMAIN index \cup {p}
                /\ \A q \in DOMAIN index \ {p} : index'[q] = index[q]
                /\ \A q \in PackageNames \ {p} : scans'[q] = scans[q]
                /\ scans'[p] = 1
                /\ result'.items = flat_map(index'[p])
                /\ p \in DOMAIN index =>
                    /\ index'[p] = index[p]
                    /\ scans'[p] = scans[p]
       /\ last'.op = "registry_index" => index' = index /\ scans' = scans
    ]_vars

\* C13 case: both packages have been looked up and hold candidates, and
\* the last lookup, of a package indexed before the cache changed, returned
\* the recorded entry, which no scan of the present cache gives.
C13_Witness ==
    /\ last.op = "registry_get"
    /\ last.entry = "Occupied"
    /\ \A p \in PackageNames :
        /\ scans[p] = 1
        /\ p \in DOMAIN index
        /\ flat_map(index[p]) /= <<>>
    /\ result.items = flat_map(index[last.package_name])
    /\ \A order \in ScanOrders(cache, last.package_name) :
          RegistryWheelIndex_index(last.package_name, cache,
                                   index_locations, order)
            /= index[last.package_name]

\* the candidates handed to add_wheel for an index, in the order of the
\* scan: the direct-download pointers, then the build outputs
Sightings(c, idx, package, order) ==
    LET shards ==
            directories(InOrder(SourceEntries(c, idx.url, package), order))
        seq == DirectWheels(c, idx.url, package, order)
               \o BuiltWheels(c, idx.url, package, shards, order)
    IN  [k \in 1..Len(seq) |-> into_registry_dist(seq[k])]

\* the places in a scan of the compatible candidates of a version that no
\* other candidate of the version outranks
BestPlaces(seq, version) ==
    LET places == {k \in 1..Len(seq) :
                      /\ seq[k].filename.version = version
                      /\ is_compatible(compatibility(seq[k].filename))}
    IN  {k \in places :
            \A j \in places :
                ~ CompatibilityGreater(compatibility(seq[j].filename),
                                       compatibility(seq[k].filename))}

\* C14: a recorded candidate gives way only to a strictly higher-ranked
\* one, so in every order of the scan that yields the recorded entry the
\* record kept for a version is, among the compatible candidates of
\* highest ranking, the one scanned first; the
\* direct-download pointers are scanned before the build outputs, so a
\* built wheel is kept only if it outranks every direct-download candidate
\* of the version.
C14_TieBreak ==
    \A p \in DOMAIN index :
        \A order \in ScanOrders(cache, p) :
            index[p] = RegistryWheelIndex_index(p, cache, index_locations, order)
            => \A k \in 1..Len(index[p]) :
                LET idx == index[p][k].key
                    seq == Sightings(cache, idx, p, order)
                IN  \A v \in DOMAIN index[p][k].value :
                    LET kept == index[p][k].value[v]
                        best == BestPlaces(seq, v)
                    IN  /\ best /= {}
                        /\ \E b \in best :
                            /\ kept = seq[b]
                            /\ \A j \in best : b <= j
                        /\ kept.path[1] = "SourceDistributions" =>
                            \A j \in 1..Len(seq) :
                                (/\ seq[j].filename.version = v
                                 /\ seq[j].path[1] = "Wheels")
                                => CompatibilityGreater(
                                       compatibility(kept.filename),
                                       compatibility(seq[j].filename))

\* C14 case: a lookup over a cache that holds, for one index and version,
\* a direct-download candidate and a built wheel of the same highest
\* ranking, and the direct-download candidate is the one returned.
C14_Witness ==
    /\ last.op = "registry_get"
    /\ \E k \in 1..Len(result.items) :
        LET item == result.items[k]
        IN  /\ item.dist.path[1] = "Wheels"
            /\ \E w \in Sighted(cache, item.index, last.package_name) :
                /\ w.filename.version = item.version
                /\ w.path[1] = "SourceDistributions"
                /\ compatibility(w.filename) = compatibility(item.dist.filename)

\* a readable record that population of its index reads: a pointer with
\* the extension of the index kind, or a built wheel in the directory of
\* the revision its shard points to
Read(e) ==
    LET remote == IndexUrlVariant(e.url) \in {"Pypi", "Url"}
    IN  /\ e.wheel.ok
        /\ IF e.bucket = "Wheels"
           THEN Spells(e.ext, IF remote THEN HttpExt ELSE RevExt)
           ELSE RevisionFor(e).present /\ e.dir = RevisionFor(e).id

\* the hash subject of a record satisfies the policy of its (name, version)
SubjectPasses(e) ==
    satisfies(HashSubject(e),
              get_package(e.wheel.filename.name, e.wheel.filename.version))

\* C15: what the hash policy is applied to depends on where a candidate
\* comes from: a direct-download wheel is admitted when its own hashes
\* satisfy the policy and kept out when they do not; a built wheel is
\* admitted when the hashes of its source revision satisfy the policy and
\* kept out when they do not, whatever its own hashes, so the built wheels
\* of one revision with one (name, version) are admitted or kept out
\* together.
C15_HashSubject ==
    \A package \in DOMAIN index :
        \A k \in 1..Len(index[package]) :
            LET idx == index[package][k].key
                recorded == index[package][k].value
            IN  \A e \in cache :
                    (e.package = package /\ e.url = idx.url /\ Read(e)) =>
                        LET v == e.wheel.filename.version
                            c == compatibility(e.wheel.filename)
                        IN  IF SubjectPasses(e)
                            THEN is_compatible(c) =>
                                /\ v \in DOMAIN recorded
                                /\ ~ CompatibilityGreater(
                                       c, compatibility(recorded[v].filename))
                            ELSE \A w \in DOMAIN recorded :
                                    recorded[w] /= EntryDist(e)

\* C15 case: a lookup returned a built wheel whose own hashes do not satisfy
\* the policy of its version while those of its revision do, and the cache
\* holds two built wheels of one revision and version whose revision fails
\* the policy.
C15_Witness ==
    /\ last.op = "registry_get"
    /\ \E k \in 1..Len(result.items) :
        /\ result.items[k].dist.path[1] = "SourceDistributions"
        /\ ~ satisfies(result.items[k].dist.hashes,
                       get_package(last.package_name, result.items[k].version))
    /\ \E e1, e2 \in cache :
        /\ e1 /= e2
        /\ e1.package = last.package_name /\ e2.package = last.package_name
        /\ e1.bucket = "SourceDistributions"
        /\ e2.bucket = "SourceDistributions"
        /\ e1.url = e2.url /\ e1.shard = e2.shard /\ e1.dir = e2.dir
        /\ Read(e1) /\ Read(e2)
        /\ e1.wheel.filename.version = e2.wheel.filename.version
        /\ ~ SubjectPasses(e1)
        /\ \E j \in 1..Len(index_locations.indexes) :
            index_locations.indexes[j].url = e1.url

\* C16: the kind of an index selects the records read for it.  Under a
\* remote index only pointers with extension `http`, in any letter case,
\* and shards with an HTTP revision pointer yield candidates; under a
\* local-path index only pointers with extension `rev` and shards with a
\* local revision pointer do.  A record of the other kind is never
\* recorded, and the build outputs are scanned for an index of either kind.
C16_KindSelectsFormat ==
    \A package \in DOMAIN index :
        \A k \in 1..Len(index[package]) :
            LET idx == index[package][k].key
                recorded == index[package][k].value
                remote == IndexUrlVariant(idx.url) \in {"Pypi", "Url"}
                ofKind(e) ==
                    IF e.bucket = "Wheels"
                    THEN Spells(e.ext, IF remote THEN HttpExt ELSE RevExt)
                    ELSE IF remote THEN e.shard.http.present
                                   ELSE e.shard.local.present
                pointed(e) ==
                    e.bucket = "SourceDistributions" =>
                        e.dir = (IF remote THEN e.shard.http.id
                                           ELSE e.shard.local.id)
            IN  \A e \in cache :
                    (e.package = package /\ e.url = idx.url /\ e.wheel.ok) =>
                        IF ofKind(e)
                        THEN (/\ pointed(e)
                              /\ SubjectPasses(e)
                              /\ is_compatible(compatibility(e.wheel.filename)))
                             => e.wheel.filename.version \in DOMAIN recorded
                        ELSE \A v \in DOMAIN recorded :
                                recorded[v] /= EntryDist(e)

\* C16 case: a lookup returned, for a local-path index, a candidate read
\* from a `rev` pointer although an `http` pointer of the same version
\* outranks it, and, for a remote index, a candidate read from a pointer
\* whose extension is `http` in another letter case.
C16_Witness ==
    /\ last.op = "registry_get"
    /\ \E k \in 1..Len(result.items) :
        LET item == result.items[k]
        IN  /\ IndexUrlVariant(item.index.url) = "Path"
            /\ item.dist.path[1] = "Wheels"
            /\ item.dist.path[2] = RevExt
            /\ \E e \in cache :
                /\ e.package = last.package_name
                /\ e.url = item.index.url
                /\ e.bucket = "Wheels"
                /\ e.ext = HttpExt
                /\ e.wheel.ok
                /\ e.wheel.filename.version = item.version
                /\ CompatibilityGreater(compatibility(e.wheel.filename),
                                        compatibility(item.dist.filename))
    /\ \E k \in 1..Len(result.items) :
        /\ IndexUrlVariant(result.items[k].index.url) \in {"Pypi", "Url"}
        /\ result.items[k].dist.path[2] /= HttpExt
        /\ Spells(result.items[k].dist.path[2], HttpExt)

\* C17: the candidates of different indexes never compete.  What is
\* recorded for an index is what population records for it from the cache
\* entries of that index alone; each record is a candidate sighted in that
\* index, of the highest ranking sighted there; and the result holds one
\* triple per (index, version), the triples of an index of higher priority
\* first.
C17_CrossIndexIndependence ==
    /\ \A package \in DOMAIN index :
        \A k \in 1..Len(index[package]) :
            LET idx == index[package][k].key
                recorded == index[package][k].value
                own == {e \in cache : e.url = idx.url}
            IN  /\ \E order \in ScanOrders(own, package) :
                    recorded =
                        VersionsOf(RegistryWheelIndex_index(
                                       package, own, index_locations, order),
                                   idx)
                /\ \A v \in DOMAIN recorded :
                    /\ recorded[v] \in Sighted(cache, idx, package)
                    /\ \A w \in Sighted(cache, idx, package) :
                        w.filename.version = v =>
                            ~ CompatibilityGreater(
                                  compatibility(w.filename),
                                  compatibility(recorded[v].filename))
    /\ last.op = "registry_get" =>
        \A k, l \in 1..Len(result.items) :
            k < l =>
                /\ <<result.items[k].index, result.items[k].version>>
                     /= <<result.items[l].index, result.items[l].version>>
                /\ Priority(index_locations, result.items[k].index)
                     <= Priority(index_locations, result.items[l].index)

\* C17 case: a lookup returned one version from two indexes, the candidate
\* of the index of higher priority outranking that of the other index.
C17_Witness ==
    /\ last.op = "registry_get"
    /\ \E k, l \in 1..Len(result.items) :
        /\ k < l
        /\ result.items[k].index /= result.items[l].index
        /\ result.items[k].version = result.items[l].version
        /\ CompatibilityGreater(compatibility(result.items[k].dist.filename),
                                compatibility(result.items[l].dist.filename))

\* C18: whatever the order in which the file system lists the pointers,
\* the shards and the built wheels, population records the same indexes
\* and versions with the same compatibility ranking as the recorded entry;
\* only which of the candidates of that ranking is kept may differ.
C18_ScanOrderIndependence ==
    \A package \in DOMAIN index :
        \A order \in ScanOrders(cache, package) :
            Rankings(RegistryWheelIndex_index(package, cache, index_locations,
                                              order))
                = Rankings(index[package])

\* C18 case: a lookup over a cache for which two orders of the scan keep
\* different candidates, and where a version recorded for an index also has
\* a sighted candidate of lower ranking.
C18_Witness ==
    /\ last.op = "registry_get"
    /\ last.package_name \in DOMAIN index
    /\ \E order \in ScanOrders(cache, last.package_name) :
        RegistryWheelIndex_index(last.package_name, cache, index_locations,
                                 order)
            /= index[last.package_name]
    /\ \E k \in 1..Len(result.items) :
        \E w \in Sighted(cache, result.items[k].index, last.package_name) :
            /\ w.filename.version = result.items[k].version
            /\ CompatibilityGreater(compatibility(result.items[k].dist.filename),
                                    compatibility(w.filename))

\* C19: an insert for a package, whether it succeeds or fails, leaves the
\* pin of every other package of the same tracker as it was, pinned to the
\* same index or unset, and adds or removes no tracker; a get changes no
\* tracker at all.
C19_Frame ==
    [][/\ last'.op = "insert" =>
            /\ Len(forks') = Len(forks)
            /\ \A q \in PackageNames \ {last'.package_name} :
                /\ q \in DOMAIN forks'[last'.fork]
                     <=> q \in DOMAIN forks[last'.fork]
                /\ q \in DOMAIN forks[last'.fork] =>
                     forks'[last'.fork][q] = forks[last'.fork][q]
       /\ last'.op = "get" => forks' = forks
    ]_vars

\* C19 case: an insert for a package failed on a conflict in a tracker that
\* pins another package as well.
C19_Witness ==
    /\ last.op = "insert"
    /\ result.kind \in ConflictKinds
    /\ \E q \in PackageNames \ {last.package_name} :
        q \in DOMAIN forks[last.fork]

====
